---- MODULE Spec2Model ----
(***************************************************************************)
(* A model of FPL-Optimization-Tools' two pieces of algorithmic code:      *)
(*   - utils.cached_request: the TTL read-through HTTP cache kept in one   *)
(*     JSON file (src/utils.py);                                           *)
(*   - run/simulations.py: the weighted planner and the process-pool       *)
(*     dispatch of the simulation jobs.                                    *)
(* The cache is checked under CacheSpec (one caller) and RaceSpec (two      *)
(* concurrent callers), the planner under PlanSpec, the job dicts under    *)
(* BuildSpec and the dispatch under SimSpec and, with its threads          *)
(* scheduled fairly, SimLiveSpec.                                          *)
(***************************************************************************)
EXTENDS Integers, Sequences, FiniteSets, TLC

VARIABLES
    \* ---- cached_request (src/utils.py) ----
    file,       \* content of CACHE_FILE
    now,        \* time.time(), in seconds
    ncalls,     \* number of cached_request calls made so far
    last,       \* the most recent call: its inputs and what it did
    hist,       \* per url: the most recent call for it
    last_ok,    \* per url: the most recent successful fetch
    \* ---- run_sensitivity (src/run/simulations.py) ----
    mode,       \* "binaries" (use_binaries is "y") or "standard"
    runs,       \* the total number of simulations asked for
    processes,  \* max_workers of the pools
    weights,    \* binary_file_weights, the weights in table order
    pc,         \* where the dispatch call is
    src,        \* binaries mode: the table entry the loop is at
    counts,     \* weighted_runs of the entries planned so far
    jobs,       \* per batch submitted so far, the state of each of its jobs
    nxt,        \* the position in the batch whose result list() waits for
    failure,    \* the job whose exception the call raises, if any
    \* ---- the job dicts of run_simulations_with_binaries ----
    names,      \* the keys of binary_file_weights, in table order
    specs,      \* the job dicts built so far (all_jobs of every loop turn)
    \* ---- concurrent callers of cached_request ----
    callers,    \* per caller: where its call is and what it holds
    saves       \* the callers in the order their json.dump reached the file

cacheVars == <<file, now, ncalls, last, hist, last_ok>>
simVars == <<mode, runs, processes, weights, pc, src, counts, jobs, nxt, failure>>
buildVars == <<names, specs>>
raceVars == <<callers, saves>>
\* What the dispatch leaves alone, and what the single caller of the cache does.
nonSimVars == <<cacheVars, buildVars, raceVars>>
nonCacheVars == <<simVars, buildVars, raceVars>>
vars == <<cacheVars, simVars, buildVars, raceVars>>

----------------------------------------------------------------------------
(* ------------------------- cached_request ------------------------------ *)

CACHE_EXPIRATION == 300

Urls == {"u1", "u2"}
Data == {"X", "Y"}

\* Bounds of the cache model.
MaxCalls == 3
StartTime == 400
MaxNow == 800
Steps == {100, 200}

\* A value of the cache dict: a dict with some of the keys "data" and
\* "timestamp" (is_dict), or a JSON value that is no dict at all.
Entry(d, t) ==
    [is_dict |-> TRUE, has_data |-> TRUE, data |-> d,
     has_timestamp |-> TRUE, timestamp |-> t]
EntryNoData(t) ==
    [is_dict |-> TRUE, has_data |-> FALSE, data |-> "none",
     has_timestamp |-> TRUE, timestamp |-> t]
EntryNoTimestamp(d) ==
    [is_dict |-> TRUE, has_data |-> TRUE, data |-> d,
     has_timestamp |-> FALSE, timestamp |-> 0]
EntryScalar ==
    [is_dict |-> FALSE, has_data |-> FALSE, data |-> "none",
     has_timestamp |-> FALSE, timestamp |-> 0]

EmptyMap == [u \in {} |-> EntryScalar]

\* The content of CACHE_FILE: no file, text that is no JSON, or a JSON value:
\* an object (map), an array (elems: the strings in it), or a number/null/bool.
FileAbsent == [kind |-> "absent", map |-> EmptyMap, elems |-> {}]
FileInvalid == [kind |-> "invalid", map |-> EmptyMap, elems |-> {}]
FileObject(m) == [kind |-> "object", map |-> m, elems |-> {}]
FileArray(es) == [kind |-> "array", map |-> EmptyMap, elems |-> es]
FileScalar == [kind |-> "scalar", map |-> EmptyMap, elems |-> {}]

\* Lines 93-100: cache = {} unless the file exists and json.load succeeds.
LoadCache(f) ==
    IF f.kind \in {"absent", "invalid"} THEN FileObject(EmptyMap) ELSE f

\* Line 104 / 131: `url in cache`. A dict tests its keys, a list its elements;
\* a number, null or bool raises TypeError ("raises").
InRaises(cache) == cache.kind = "scalar"
In(url, cache) ==
    CASE cache.kind = "object" -> url \in DOMAIN cache.map
      [] cache.kind = "array" -> url \in cache.elems
      [] OTHER -> FALSE

\* Line 106: cached_entry.get("timestamp", 0).
GetTimestamp(e) == IF e.has_timestamp THEN e.timestamp ELSE 0

\* Line 107: current_time - timestamp < CACHE_EXPIRATION.
IsFresh_flipped(current_time, timestamp) ==
    current_time - timestamp > CACHE_EXPIRATION
IsFresh_always(current_time, timestamp) == TRUE
IsFresh(current_time, timestamp) ==
    current_time - timestamp < CACHE_EXPIRATION

Return(v, fetched, f) ==
    [ret |-> "return", value |-> v, fetched |-> fetched, file |-> f]
Raise(exc, fetched, f) ==
    [ret |-> "raise", value |-> exc, fetched |-> fetched, file |-> f]

\* Lines 118-127: a successful fetch. cache[url] = {...} needs a dict; the
\* whole dict is written back and the fresh data returned.
FetchSucceeded_nosave(f, cache, url, current_time, d) ==
    IF cache.kind # "object" THEN Raise("TypeError", TRUE, f)
    ELSE Return(d, TRUE, f)
FetchSucceeded(f, cache, url, current_time, d) ==
    IF cache.kind # "object" THEN Raise("TypeError", TRUE, f)
    ELSE LET m == [u \in DOMAIN cache.map \cup {url} |->
                     IF u = url THEN Entry(d, current_time) ELSE cache.map[u]]
         IN  Return(d, TRUE, FileObject(m))

\* Lines 129-134: requests.RequestException. An entry of any age is served,
\* cache[url]["data"]; with no entry the exception is raised again.
FetchFailed_raise(f, cache, url) == Raise("RequestException", TRUE, f)
FetchFailed(f, cache, url) ==
    IF In(url, cache)
    THEN IF cache.map[url].has_data
         THEN Return(cache.map[url].data, TRUE, f)
         ELSE Raise("KeyError", TRUE, f)
    ELSE Raise("RequestException", TRUE, f)

\* Lines 111-134: the fetch, net being what requests.get does this time.
Fetch_touch(f, cache, url, current_time, net) ==
    IF net.ok THEN FetchSucceeded(f, cache, url, current_time, net.data)
    ELSE IF In(url, cache) /\ cache.map[url].has_data
    THEN Return(cache.map[url].data, TRUE,
                FileObject([cache.map EXCEPT ![url] =
                              Entry(cache.map[url].data, current_time)]))
    ELSE FetchFailed(f, cache, url)
Fetch(f, cache, url, current_time, net) ==
    IF net.ok THEN FetchSucceeded(f, cache, url, current_time, net.data)
    ELSE FetchFailed(f, cache, url)

\* Lines 92-134: the whole call, on file content f at time current_time.
CachedRequest(f, url, current_time, net) ==
    LET cache == LoadCache(f) IN
    IF InRaises(cache) THEN Raise("TypeError", FALSE, f)
    ELSE IF In(url, cache)
    THEN IF cache.kind = "array" THEN Raise("TypeError", FALSE, f)
         ELSE LET cached_entry == cache.map[url] IN
              IF ~cached_entry.is_dict THEN Raise("AttributeError", FALSE, f)
              ELSE IF IsFresh(current_time, GetTimestamp(cached_entry))
              THEN IF cached_entry.has_data
                   THEN Return(cached_entry.data, FALSE, f)
                   ELSE Raise("KeyError", FALSE, f)
              ELSE Fetch(f, cache, url, current_time, net)
    ELSE Fetch(f, cache, url, current_time, net)

\* What requests.get(url), raise_for_status() and response.json() can do.
NetOutcomes ==
    [ok : {TRUE}, data : Data] \cup {[ok |-> FALSE, data |-> "none"]}

\* The network's answer as far as the call saw it: none without a fetch.
NoNet == [ok |-> FALSE, data |-> "none"]
Used(r, net) == IF r.fetched THEN net ELSE NoNet

\* History kept for the properties: no earlier call, no earlier fetch.
NoPrev ==
    [some |-> FALSE, at |-> 0, net |-> [ok |-> FALSE, data |-> "none"],
     ret |-> "none", value |-> "none", fetched |-> FALSE]
NoneYet == [some |-> FALSE, at |-> 0, data |-> "none", returned |-> FALSE]
NoCall ==
    [url |-> "none", at |-> 0, pre |-> FileAbsent,
     net |-> [ok |-> FALSE, data |-> "none"],
     ret |-> "none", value |-> "none", fetched |-> FALSE,
     prev |-> NoPrev, prev_ok |-> NoneYet]

\* The entries a file left by earlier runs, or damaged since, may hold for u1.
InitEntriesU1 ==
    {Entry("X", t) : t \in {StartTime - 400, StartTime - 300, StartTime - 100}}
    \cup {EntryNoData(StartTime - 400), EntryNoData(StartTime - 100),
          EntryNoTimestamp("X"), EntryScalar}
InitEntriesU2 == {Entry("Y", StartTime - 100)}

InitMaps ==
    {EmptyMap}
    \cup {[u \in {"u1"} |-> e] : e \in InitEntriesU1}
    \cup {[u \in {"u2"} |-> e] : e \in InitEntriesU2}
    \cup {[u \in Urls |-> IF u = "u1" THEN e1 ELSE e2] :
            e1 \in InitEntriesU1, e2 \in InitEntriesU2}

InitFiles ==
    {FileAbsent, FileInvalid, FileScalar, FileArray({}), FileArray({"u1"})}
    \cup {FileObject(m) : m \in InitMaps}

CacheInit ==
    /\ file \in InitFiles
    /\ now = StartTime
    /\ ncalls = 0
    /\ last = NoCall
    /\ hist = [u \in Urls |-> NoPrev]
    /\ last_ok = [u \in Urls |-> NoneYet]

\* One cached_request(url) by the single caller.
Call(url, net) ==
    /\ ncalls < MaxCalls
    /\ LET r == CachedRequest(file, url, now, net) IN
       /\ file' = r.file
       /\ last' = [url |-> url, at |-> now, pre |-> file, net |-> Used(r, net),
                   ret |-> r.ret, value |-> r.value, fetched |-> r.fetched,
                   prev |-> hist[url], prev_ok |-> last_ok[url]]
       /\ hist' = [hist EXCEPT ![url] =
                     [some |-> TRUE, at |-> now, net |-> Used(r, net), ret |-> r.ret,
                      value |-> r.value, fetched |-> r.fetched]]
       /\ last_ok' = IF r.fetched /\ net.ok
                     THEN [last_ok EXCEPT ![url] =
                             [some |-> TRUE, at |-> now, data |-> net.data,
                              returned |-> r.ret = "return"]]
                     ELSE last_ok
    /\ ncalls' = ncalls + 1
    /\ now' = now
    /\ UNCHANGED nonCacheVars

\* Time passes between calls.
Tick(d) ==
    /\ now + d <= MaxNow
    /\ now' = now + d
    /\ UNCHANGED <<file, ncalls, last, hist, last_ok, nonCacheVars>>

CacheNext ==
    \/ \E url \in Urls, net \in NetOutcomes : Call(url, net)
    \/ \E d \in Steps : Tick(d)

----------------------------------------------------------------------------
(* ------------------- weighted planner: Python floats ------------------- *)

\* A positive binary64 value is m * 2^e, m its 53 significand bits (most
\* significant first). The weights and run counts here stay far from the
\* subnormal and the overflow range: total_weights < 2^16 and runs < 2^17,
\* so that every intermediate number fits TLC's integers.
MantissaBits == 53
FloatZero == [zero |-> TRUE, m |-> <<>>, e |-> 0]
Float(m, e) == [zero |-> FALSE, m |-> m, e |-> e]

\* The bits of n in exactly w places, and in as many as n needs.
FixedBits(n, w) == [i \in 1..w |-> (n \div 2^(w - i)) % 2]
Width(n) == CHOOSE k \in 0..30 : n < 2^k /\ (k = 0 \/ 2^(k - 1) <= n)
NatBits(n) == FixedBits(n, Width(n))

RECURSIVE BitsNat(_)
BitsNat(bs) ==
    IF Len(bs) = 0 THEN 0
    ELSE IF Len(bs) = 1 THEN bs[1]
    ELSE LET h == Len(bs) \div 2 IN
         BitsNat(SubSeq(bs, 1, h)) * 2^(Len(bs) - h)
           + BitsNat(SubSeq(bs, h + 1, Len(bs)))

\* bs without its leading zeros (bs holds a 1).
FirstOne(bs) == CHOOSE i \in 1..Len(bs) : bs[i] = 1 /\ \A j \in 1..(i - 1) : bs[j] = 0
Strip(bs) == SubSeq(bs, FirstOne(bs), Len(bs))

\* bs + 1: the carry runs up to the last 0.
Incr(bs) ==
    IF \A i \in 1..Len(bs) : bs[i] = 1
    THEN <<1>> \o [i \in 1..Len(bs) |-> 0]
    ELSE LET z == CHOOSE i \in 1..Len(bs) :
                    bs[i] = 0 /\ \A j \in (i + 1)..Len(bs) : bs[j] = 1
         IN  [i \in 1..Len(bs) |-> IF i < z THEN bs[i] ELSE IF i = z THEN 1 ELSE 0]

\* IEEE 754 round-to-nearest, ties-to-even, of the exact bits bs (sticky: a
\* nonzero rest below them) to 53 bits; shift is what the exponent gains.
RoundMantissa(bs, sticky) ==
    LET L == Len(bs)
        keep == SubSeq(bs, 1, MantissaBits)
        rb == IF L > MantissaBits THEN bs[MantissaBits + 1] ELSE 0
        st == sticky \/ \E i \in (MantissaBits + 2)..L : bs[i] = 1
        up == rb = 1 /\ (st \/ keep[MantissaBits] = 1)
        m1 == IF up THEN Incr(keep) ELSE keep
    IN  IF Len(m1) > MantissaBits
        THEN [m |-> SubSeq(m1, 1, MantissaBits), shift |-> L - MantissaBits + 1]
        ELSE [m |-> m1, shift |-> L - MantissaBits]

\* Line 49: weight / total_weights, the correctly rounded binary64 quotient:
\* long division, 15 binary places at a time (total_weights < 2^16, so a
\* remainder times 2^15 fits an integer); 105 places hold the 54 bits needed
\* after any leading zeros.
FloatDiv(weight, total_weights) ==
    IF weight = 0 THEN FloatZero
    ELSE LET ip == NatBits(weight \div total_weights)
             places(r) == FixedBits((r * 2^15) \div total_weights, 15)
             rest(r) == (r * 2^15) % total_weights
             r0 == weight % total_weights
             r1 == rest(r0)
             r2 == rest(r1)
             r3 == rest(r2)
             r4 == rest(r3)
             r5 == rest(r4)
             r6 == rest(r5)
             r7 == rest(r6)
             all == ip \o places(r0) \o places(r1) \o places(r2) \o places(r3)
                       \o places(r4) \o places(r5) \o places(r6)
             f1 == FirstOne(all)
             \* 53 bits and the round bit; what lies below them is sticky
             bits == SubSeq(all, f1, f1 + MantissaBits)
             sticky == r7 # 0 \/ \E i \in (f1 + MantissaBits + 1)..Len(all) : all[i] = 1
             rm == RoundMantissa(bits, sticky)
         IN  Float(rm.m, rm.shift - (f1 + MantissaBits - Len(ip)))

\* The exact product of the 53 bits bs and the natural number k, as bits:
\* four limbs of 14 bits, each multiplied with the carry of the one below.
MulBits(bs, k) ==
    LET LimbBits == 14
        pad == [i \in 1..(4 * LimbBits - Len(bs)) |-> 0] \o bs
        limb(j) == BitsNat(SubSeq(pad, (4 - j) * LimbBits - LimbBits + 1,
                                  (4 - j) * LimbBits))
        B == 2^LimbBits
        t0 == limb(0) * k
        t1 == limb(1) * k + t0 \div B
        t2 == limb(2) * k + t1 \div B
        t3 == limb(3) * k + t2 \div B
    IN  Strip(NatBits(t3 \div B) \o FixedBits(t3 % B, LimbBits)
              \o FixedBits(t2 % B, LimbBits) \o FixedBits(t1 % B, LimbBits)
              \o FixedBits(t0 % B, LimbBits))

\* Line 51: scaled_weight * runs, the correctly rounded binary64 product.
FloatMul(x, k) ==
    IF x.zero \/ k = 0 THEN FloatZero
    ELSE LET rm == RoundMantissa(MulBits(x.m, k), FALSE)
         IN  Float(rm.m, x.e + rm.shift)

\* Line 51: round(x) of a float: to the nearest integer, a tie to the even one.
PyRound_half_up(x) ==
    IF x.zero \/ -x.e > MantissaBits THEN 0
    ELSE LET f == -x.e
             int == BitsNat(SubSeq(x.m, 1, MantissaBits - f))
         IN  IF x.m[MantissaBits - f + 1] = 1 THEN int + 1 ELSE int
PyRound_ceil(x) ==
    IF x.zero THEN 0
    ELSE IF -x.e > MantissaBits THEN 1
    ELSE LET f == -x.e
             int == BitsNat(SubSeq(x.m, 1, MantissaBits - f))
         IN  IF \E i \in (MantissaBits - f + 1)..MantissaBits : x.m[i] = 1
             THEN int + 1 ELSE int
PyRound(x) ==
    IF x.zero \/ -x.e > MantissaBits THEN 0
    ELSE LET f == -x.e
             int == BitsNat(SubSeq(x.m, 1, MantissaBits - f))
             rb == x.m[MantissaBits - f + 1]
             st == \E i \in (MantissaBits - f + 2)..MantissaBits : x.m[i] = 1
         IN  IF rb = 1 /\ (st \/ int % 2 = 1) THEN int + 1 ELSE int

\* Line 46: total_weights = sum(weights.values()).
RECURSIVE Sum(_)
Sum(ws) == IF ws = <<>> THEN 0 ELSE ws[1] + Sum(Tail(ws))

\* Lines 49-51: weighted_runs = round(weight / total_weights * runs).
weighted_runs(weight, total_weights, r) ==
    PyRound(FloatMul(FloatDiv(weight, total_weights), r))


----------------------------------------------------------------------------
(* ------------------------------ dispatch ------------------------------- *)

\* Bounds of the dispatch model (inputs of run_sensitivity).
MaxRuns == 5
MaxProcesses == 2
MaxWeight == 2
MaxSources == 2
\* Bounds of the planner's inputs under PlanSpec.
PlanMaxWeight == 15
PlanMaxRuns == 11
PlanMaxSources == 6

\* A job (a future of executor.map and its call): "pending" in
\* pending_work_items, "queued" in the call queue (no longer cancellable),
\* "running" solve_regular in a worker, "ok" or "failed" when done, or
\* "cancelled" before it was ever queued.
JobStates == {"pending", "queued", "running", "ok", "failed", "cancelled"}

NoFailure == [some |-> FALSE, src |-> 0, pos |-> 0]

Tables(maxw) == UNION {[1..n -> 0..maxw] : n \in 0..MaxSources}
\* Longer tables, of weights 0 and 1: many sources with equal shares.
LongTables == UNION {[1..n -> {0, 1}] : n \in 0..PlanMaxSources}

\* The batch in the pool now, and the positions of its jobs in a state.
Batch == jobs[Len(jobs)]
InState(b, st) == {i \in 1..Len(b) : b[i] = st}
Min(S) == CHOOSE x \in S : \A y \in S : x <= y

\* Lines 58 and 67: all_jobs, one job per run, all submitted by executor.map.
all_jobs(n) == [i \in 1..n |-> "pending"]

\* Lines 59 and 68: ProcessPoolExecutor(max_workers=processes). The pool's
\* call queue holds max_workers + 1 calls (EXTRA_QUEUED_CALLS).
call_queue_size(max_workers) == max_workers + 1
max_running_plus_one(max_workers) == max_workers + 1
max_running(max_workers) == max_workers

SimInit ==
    /\ mode \in {"standard", "binaries"}
    /\ runs \in 0..MaxRuns
    /\ processes \in 1..MaxProcesses
    /\ weights \in Tables(MaxWeight)
    /\ (mode = "standard" => weights = <<>>)
    /\ pc = "idle"
    /\ src = 1
    /\ counts = <<>>
    /\ jobs = <<>>
    /\ nxt = 1
    /\ failure = NoFailure

\* Lines 65-69: run_simulations_standard builds the jobs and maps them.
run_simulations_standard ==
    /\ mode = "standard" /\ pc = "idle"
    /\ jobs' = <<all_jobs(runs)>>
    /\ counts' = <<runs>>
    /\ nxt' = 1
    /\ pc' = "dispatching"
    /\ UNCHANGED <<nonSimVars, mode, runs, processes, weights, src, failure>>

\* Lines 48-60: one turn of the loop of run_simulations_with_binaries: the
\* entry's share of the runs, its jobs, a pool of its own.
PlanAndSubmit ==
    /\ mode = "binaries" /\ pc = "idle"
    /\ src <= Len(weights) /\ Sum(weights) # 0
    /\ LET n == weighted_runs(weights[src], Sum(weights), runs) IN
       /\ counts' = Append(counts, n)
       /\ jobs' = Append(jobs, all_jobs(n))
    /\ nxt' = 1
    /\ pc' = "dispatching"
    /\ UNCHANGED <<nonSimVars, mode, runs, processes, weights, src, failure>>

\* Line 49: weight / total_weights with a table that sums to 0.
ZeroDivision ==
    /\ mode = "binaries" /\ pc = "idle"
    /\ src <= Len(weights) /\ Sum(weights) = 0
    /\ pc' = "error"
    /\ UNCHANGED <<nonSimVars, mode, runs, processes, weights, src, counts, jobs, nxt, failure>>

\* Line 48: the loop is over, the function returns.
LoopEnd ==
    /\ mode = "binaries" /\ pc = "idle"
    /\ src > Len(weights)
    /\ pc' = "completed"
    /\ UNCHANGED <<nonSimVars, mode, runs, processes, weights, src, counts, jobs, nxt, failure>>

SetJob(i, st) ==
    jobs' = [jobs EXCEPT ![Len(jobs)] = [@ EXCEPT ![i] = st]]

\* The pool's manager thread moves the oldest pending call into the call
\* queue while the queue has room; from then on it cannot be cancelled.
AddCallItemToQueue ==
    /\ pc \in {"dispatching", "shutdown"}
    /\ InState(Batch, "pending") # {}
    /\ Cardinality(InState(Batch, "queued")) < call_queue_size(processes)
    /\ SetJob(Min(InState(Batch, "pending")), "queued")
    /\ UNCHANGED <<nonSimVars, mode, runs, processes, weights, pc, src, counts, nxt, failure>>

\* A worker process, one of max_workers, takes the oldest queued call and
\* runs solve_regular on it.
WorkerStart ==
    /\ pc \in {"dispatching", "shutdown"}
    /\ InState(Batch, "queued") # {}
    /\ Cardinality(InState(Batch, "running")) < max_running(processes)
    /\ SetJob(Min(InState(Batch, "queued")), "running")
    /\ UNCHANGED <<nonSimVars, mode, runs, processes, weights, pc, src, counts, nxt, failure>>

\* solve_regular returns or raises; the future gets its result.
WorkerFinish(i, outcome) ==
    /\ pc \in {"dispatching", "shutdown"}
    /\ i \in InState(Batch, "running")
    /\ SetJob(i, outcome)
    /\ UNCHANGED <<nonSimVars, mode, runs, processes, weights, pc, src, counts, nxt, failure>>

\* Lines 60 and 69: the iterator of executor.map yields the results in the
\* order of all_jobs: with n - 1 results taken, the next is that of job n.
ResultOrder_last_failed(b, n) ==
    IF InState(b, "failed") = {} THEN n
    ELSE CHOOSE i \in InState(b, "failed") : \A j \in InState(b, "failed") : j <= i
ResultOrder(b, n) == n

\* Lines 60 and 69: list(...) takes the next result, in submission order.
TakeResult ==
    /\ pc = "dispatching"
    /\ nxt <= Len(Batch) /\ Batch[ResultOrder(Batch, nxt)] = "ok"
    /\ nxt' = nxt + 1
    /\ UNCHANGED <<nonSimVars, mode, runs, processes, weights, pc, src, counts, jobs, failure>>

\* Lines 60 and 69: the result list() waits for is an exception. The map
\* iterator cancels every future not yet queued, and the exception leaves
\* the with block.
CancelPending_none(b) == b
CancelPending(b) ==
    [i \in 1..Len(b) |-> IF b[i] = "pending" THEN "cancelled" ELSE b[i]]

TakeFailure ==
    /\ pc = "dispatching"
    /\ nxt <= Len(Batch) /\ Batch[ResultOrder(Batch, nxt)] = "failed"
    /\ jobs' = [jobs EXCEPT ![Len(jobs)] = CancelPending(@)]
    /\ failure' = [some |-> TRUE, src |-> Len(jobs),
                   pos |-> ResultOrder(Batch, nxt)]
    /\ pc' = "shutdown"
    /\ UNCHANGED <<nonSimVars, mode, runs, processes, weights, src, counts, nxt>>

\* Lines 60 and 69: every result was taken; the with block is left.
ResultsExhausted ==
    /\ pc = "dispatching"
    /\ nxt > Len(Batch)
    /\ pc' = "shutdown"
    /\ UNCHANGED <<nonSimVars, mode, runs, processes, weights, src, counts, jobs, nxt, failure>>

\* Lines 59-61 and 68-70: the with block's exit is shutdown(wait=True): it
\* returns when no call is pending, queued or running. Then the exception, if
\* any, leaves the function; else the function or the loop goes on.
Drained_nowait(b) == TRUE
Drained(b) == \A i \in 1..Len(b) : b[i] \notin {"pending", "queued", "running"}

ShutdownReturns ==
    /\ pc = "shutdown"
    /\ Drained(Batch)
    /\ IF failure.some THEN pc' = "failed" /\ src' = src
       ELSE IF mode = "standard" THEN pc' = "completed" /\ src' = src
       ELSE pc' = "idle" /\ src' = src + 1
    /\ UNCHANGED <<nonSimVars, mode, runs, processes, weights, counts, jobs, nxt, failure>>

SimNext ==
    \/ run_simulations_standard
    \/ PlanAndSubmit
    \/ ZeroDivision
    \/ LoopEnd
    \/ AddCallItemToQueue
    \/ WorkerStart
    \/ \E i \in 1..MaxRuns, outcome \in {"ok", "failed"} : WorkerFinish(i, outcome)
    \/ TakeResult
    \/ TakeFailure
    \/ ResultsExhausted
    \/ ShutdownReturns

\* The cache at rest, for the specifications of the dispatch.
CacheIdle ==
    /\ file = FileAbsent
    /\ now = StartTime
    /\ ncalls = 0
    /\ last = NoCall
    /\ hist = [u \in Urls |-> NoPrev]
    /\ last_ok = [u \in Urls |-> NoneYet]

\* The dispatch at rest, for the specification of the cache.
SimIdle ==
    /\ mode = "standard" /\ runs = 0 /\ processes = 1 /\ weights = <<>>
    /\ pc = "idle" /\ src = 1 /\ counts = <<>> /\ jobs = <<>> /\ nxt = 1
    /\ failure = NoFailure

\* No job dict built, and no concurrent caller.
BuildIdle == names = <<>> /\ specs = <<>>
RaceIdle == callers = <<>> /\ saves = <<>>

CacheSpecInit == CacheInit /\ SimIdle /\ BuildIdle /\ RaceIdle
CacheSpec == CacheSpecInit /\ [][CacheNext]_vars

SimSpecInit == SimInit /\ CacheIdle /\ BuildIdle /\ RaceIdle
SimSpec == SimSpecInit /\ [][SimNext]_vars

\* A solve_regular invocation finishes: it returns or it raises.
SolveFinishes ==
    \E i \in 1..MaxRuns, outcome \in {"ok", "failed"} : WorkerFinish(i, outcome)
\* The steps of the calling thread, of the pool's manager thread and of the
\* workers taking calls: the interpreter and the operating system schedule
\* each of them for as long as it has something to do.
CallerAndPoolSteps ==
    \/ run_simulations_standard
    \/ ZeroDivision
    \/ LoopEnd
    \/ AddCallItemToQueue
    \/ WorkerStart
    \/ TakeResult
    \/ TakeFailure
    \/ ResultsExhausted
    \/ ShutdownReturns
\* The same for the loop's turn, PlanAndSubmit: its weak fairness written
\* out, with the action's guard for its enabledness.
PlanAndSubmitEnabled ==
    /\ mode = "binaries" /\ pc = "idle"
    /\ src <= Len(weights) /\ Sum(weights) # 0
LoopGoesOn == []<>(~PlanAndSubmitEnabled) \/ []<><<PlanAndSubmit>>_vars
\* The dispatch with its threads scheduled; whether a solve invocation ever
\* finishes is left open.
SimLiveSpec == SimSpec /\ WF_vars(CallerAndPoolSteps) /\ LoopGoesOn

\* The planner alone: the loop of run_simulations_with_binaries with the
\* dispatch of each entry's jobs left out.
PlanInit ==
    /\ mode = "binaries"
    /\ runs \in 0..PlanMaxRuns
    /\ processes = 1
    /\ weights \in Tables(PlanMaxWeight) \cup LongTables
    /\ pc = "idle" /\ src = 1 /\ counts = <<>> /\ jobs = <<>> /\ nxt = 1
    /\ failure = NoFailure

PlanEntry ==
    /\ pc = "idle"
    /\ src <= Len(weights) /\ Sum(weights) # 0
    /\ counts' = Append(counts, weighted_runs(weights[src], Sum(weights), runs))
    /\ src' = src + 1
    /\ UNCHANGED <<nonSimVars, mode, runs, processes, weights, pc, jobs, nxt, failure>>

PlanNext ==
    \/ PlanEntry
    \/ ZeroDivision
    \/ LoopEnd

PlanSpecInit == PlanInit /\ CacheIdle /\ BuildIdle /\ RaceIdle
PlanSpec == PlanSpecInit /\ [][PlanNext]_vars

----------------------------------------------------------------------------
(* ------------------ the job dicts of the weighted mode ----------------- *)

\* A Python str is the sequence of its characters.
Csv == <<".", "c", "s", "v">>
\* The keys a weight table may have: file names with the extension, one of
\* them without.
SourceNames ==
    {<<"a">> \o Csv, <<"a", "c">> \o Csv, <<"c">> \o Csv, <<"a">>}

\* Line 58: binary.rstrip(".csv"). str.rstrip(chars) takes its argument as a
\* set of characters and removes every trailing character that is in it.
Chars(t) == {t[i] : i \in 1..Len(t)}
rstrip(t, chars) ==
    LET kept == {i \in 1..Len(t) : t[i] \notin Chars(chars)}
    IN  IF kept = {} THEN <<>>
        ELSE SubSeq(t, 1, CHOOSE i \in kept : \A j \in kept : j <= i)

\* Line 58: str(i + 1), the decimal digits of a positive integer.
Digit(d) == <<"0", "1", "2", "3", "4", "5", "6", "7", "8", "9">>[d + 1]
RECURSIVE str(_)
str(n) == IF n < 10 THEN <<Digit(n)>> ELSE str(n \div 10) \o <<Digit(n % 10)>>

\* Line 58: the job dicts of one table entry, for i in range(weighted_runs).
\* (entry is not a key of the dict: it records the table entry the dict was
\* built for.)
JobDicts(binary, n, entry) ==
    [k \in 1..n |->
        [run_no |-> str((k - 1) + 1), randomized |-> TRUE,
         datasource |-> rstrip(binary, Csv), entry |-> entry]]

\* Tables of up to MaxSources distinct keys (the keys of a dict are distinct).
NameTables ==
    UNION {{t \in [1..n -> SourceNames] :
              \A i \in 1..n, j \in 1..n : i # j => t[i] # t[j]} :
           n \in 0..MaxSources}

BuildInit ==
    /\ mode = "binaries"
    /\ runs \in 0..PlanMaxRuns
    /\ processes = 1
    /\ names \in NameTables
    /\ weights \in [1..Len(names) -> 0..MaxWeight]
    /\ pc = "idle" /\ src = 1 /\ counts = <<>> /\ jobs = <<>> /\ nxt = 1
    /\ failure = NoFailure
    /\ specs = <<>>

\* Lines 48-58: one turn of the loop, up to the job dicts of the entry.
BuildJobs ==
    /\ mode = "binaries" /\ pc = "idle"
    /\ src <= Len(weights) /\ Sum(weights) # 0
    /\ LET n == weighted_runs(weights[src], Sum(weights), runs) IN
       /\ counts' = Append(counts, n)
       /\ specs' = specs \o JobDicts(names[src], n, src)
    /\ src' = src + 1
    /\ UNCHANGED <<cacheVars, raceVars, names, mode, runs, processes, weights,
                   pc, jobs, nxt, failure>>

BuildNext ==
    \/ BuildJobs
    \/ ZeroDivision
    \/ LoopEnd

BuildSpecInit == BuildInit /\ CacheIdle /\ RaceIdle
BuildSpec == BuildSpecInit /\ [][BuildNext]_vars

----------------------------------------------------------------------------
(* ------------- cached_request called by concurrent callers ------------- *)

\* Two processes or threads, each making one cached_request call on the same
\* CACHE_FILE. A call is at "start", has "loaded" the cache (lines 93-103),
\* has "fetched" fresh data (lines 112-114), holds the file "open" for
\* writing (line 124) or is "done".
Callers == {1, 2}

NewCaller(url) ==
    [pc |-> "start", url |-> url, at |-> 0, cache |-> FileObject(EmptyMap),
     net |-> NoNet, out |-> FileAbsent, seen |-> 0, clean |-> TRUE,
     ret |-> "none"]

\* Lines 118-121: cache[url] = {...} is set in the dict this call loaded at
\* lines 96-97; the file is not read again.
WrittenCache_reloaded(held, f) == LoadCache(f)
WrittenCache(held, f) == held

RaceInit ==
    /\ file \in InitFiles
    /\ now = StartTime
    /\ ncalls = 0
    /\ last = NoCall
    /\ hist = [u \in Urls |-> NoPrev]
    /\ last_ok = [u \in Urls |-> NoneYet]
    /\ callers \in {[c \in Callers |-> NewCaller(IF c = 1 THEN u1 ELSE u2)] :
                      u1 \in Urls, u2 \in Urls}
    /\ saves = <<>>

RaceFrame == UNCHANGED <<now, ncalls, last, hist, last_ok, simVars, buildVars>>

\* Lines 92-103: the cache is loaded from the file as it is now.
RaceLoad(c) ==
    /\ callers[c].pc = "start"
    /\ callers' = [callers EXCEPT ![c] =
                     [@ EXCEPT !.pc = "loaded", !.cache = LoadCache(file),
                               !.at = now, !.seen = Len(saves)]]
    /\ UNCHANGED <<file, saves>>
    /\ RaceFrame

\* Lines 104-116 and 129-134: the rest of the call up to the write, on the
\* dict loaded: a hit, a failed fetch or an exception ends the call; a
\* successful fetch on a dict goes on to write it.
RaceRequest(c, net) ==
    /\ callers[c].pc = "loaded"
    /\ LET me == callers[c]
           r == CachedRequest(me.cache, me.url, me.at, net)
       IN  callers' = [callers EXCEPT ![c] =
                         IF r.fetched /\ net.ok /\ r.ret = "return"
                         THEN [@ EXCEPT !.pc = "fetched", !.net = net]
                         ELSE [@ EXCEPT !.pc = "done", !.net = Used(r, net),
                                        !.ret = r.ret]]
    /\ UNCHANGED <<file, saves>>
    /\ RaceFrame

\* Lines 118-124: the entry is set in the dict and open(CACHE_FILE, "w")
\* truncates the file: until the dump it holds no JSON.
RaceOpen(c) ==
    /\ callers[c].pc = "fetched"
    /\ LET me == callers[c]
           r == FetchSucceeded(file, WrittenCache(me.cache, file), me.url,
                               me.at, me.net.data)
       IN  callers' = [callers EXCEPT ![c] =
                         [@ EXCEPT !.pc = "open", !.out = r.file]]
    /\ file' = FileInvalid
    /\ UNCHANGED saves
    /\ RaceFrame

\* Line 125 and the end of the with block: json.dump writes the dict from
\* the start of the file. When another caller wrote since this one opened
\* the file, what is left is this dict (the other text was no longer) or
\* this dict followed by the rest of the other text, which is no JSON.
RaceDump(c, torn) ==
    /\ callers[c].pc = "open"
    /\ torn => ~callers[c].clean
    /\ file' = IF torn THEN FileInvalid ELSE callers[c].out
    /\ callers' = [d \in Callers |->
                     IF d = c THEN [callers[d] EXCEPT !.pc = "done", !.ret = "return"]
                     ELSE IF callers[d].pc = "open"
                     THEN [callers[d] EXCEPT !.clean = FALSE]
                     ELSE callers[d]]
    /\ saves' = Append(saves, c)
    /\ RaceFrame

RaceNext ==
    \/ \E c \in Callers : RaceLoad(c)
    \/ \E c \in Callers, net \in NetOutcomes : RaceRequest(c, net)
    \/ \E c \in Callers : RaceOpen(c)
    \/ \E c \in Callers, torn \in BOOLEAN : RaceDump(c, torn)

RaceSpecInit == RaceInit /\ SimIdle /\ BuildIdle
RaceSpec == RaceSpecInit /\ [][RaceNext]_vars

----------------------------------------------------------------------------
(* --------------------- properties of cached_request -------------------- *)

Called == last.url # "none"
Loaded == LoadCache(last.pre)
\* The store the call loaded holds a dict entry for the url it was called with.
HasEntry == Loaded.kind = "object" /\ last.url \in DOMAIN Loaded.map
LoadedEntry == Loaded.map[last.url]

\* C1: when the outbound fetch of a call fails, an entry of the loaded store
\* for the url (of any age, carrying data) is served and nothing is raised;
\* with no entry for the url the fetch failure is raised to the caller.
C1_FetchFailureFallback ==
    (Called /\ last.fetched /\ ~last.net.ok) =>
        /\ (HasEntry /\ LoadedEntry.is_dict /\ LoadedEntry.has_data) =>
              (last.ret = "return" /\ last.value = LoadedEntry.data)
        /\ ~In(last.url, Loaded) =>
              (last.ret = "raise" /\ last.value = "RequestException")

C1_Witness ==
    /\ Called /\ last.fetched /\ ~last.net.ok
    /\ HasEntry /\ LoadedEntry = Entry("X", StartTime - 400)
    /\ last.ret = "return" /\ last.value = "X"

\* C2: a call at time now that finds an entry with now - timestamp < TTL
\* returns that entry's data and performs no outbound fetch.
C2_FreshHitNoFetch ==
    (/\ Called /\ HasEntry
     /\ LoadedEntry.is_dict /\ LoadedEntry.has_data /\ LoadedEntry.has_timestamp
     /\ last.at - LoadedEntry.timestamp < CACHE_EXPIRATION) =>
        (last.ret = "return" /\ last.value = LoadedEntry.data /\ ~last.fetched)

C2_Witness ==
    /\ Called /\ HasEntry /\ LoadedEntry.has_data /\ LoadedEntry.has_timestamp
    /\ last.at - LoadedEntry.timestamp = CACHE_EXPIRATION - 100
    /\ last.ret = "return" /\ ~last.fetched

\* A cache file that is unreadable or malformed: no JSON, JSON that is no
\* url-to-entry object, or an entry that lacks its data or its timestamp.
WellFormedEntry(e) == e.is_dict /\ e.has_data /\ e.has_timestamp
IsCorrupt(f) ==
    \/ f.kind \in {"invalid", "array", "scalar"}
    \/ f.kind = "object" /\ \E u \in DOMAIN f.map : ~WellFormedEntry(f.map[u])

\* The fetches the last two calls for the same url made together.
Fetches(c) == IF c.fetched THEN 1 ELSE 0
SameUnderlyingData ==
    (last.net.ok /\ last.prev.net.ok) => last.net.data = last.prev.net.data
NoFetchFailed ==
    (last.fetched => last.net.ok) /\ (last.prev.fetched => last.prev.net.ok)

\* C3 as stated: any two calls for one url less than TTL apart, the data at
\* the source unchanged, make exactly one outbound fetch together and return
\* identical data. (Read in its favour: the network is up for both calls and
\* the store is well formed.)
C3_AnyTwoCallsOneFetch ==
    (/\ Called /\ last.prev.some
     /\ last.at - last.prev.at < CACHE_EXPIRATION
     /\ SameUnderlyingData /\ NoFetchFailed /\ ~IsCorrupt(last.pre)) =>
        /\ Fetches(last) + Fetches(last.prev) = 1
        /\ last.ret = "return" /\ last.prev.ret = "return"
        /\ last.value = last.prev.value

\* C3 amended: when the earlier call fetched successfully and returned, a call
\* for the same url less than TTL later makes no fetch and returns the same
\* data, so the two calls make exactly one fetch together. (No fetch for the
\* url lies between the two: a call in between is itself within TTL.)
C3_OneFetchAfterSuccessfulFetch ==
    (/\ Called /\ last.prev_ok.some /\ last.prev_ok.returned
     /\ last.at - last.prev_ok.at < CACHE_EXPIRATION) =>
        /\ ~last.fetched
        /\ last.ret = "return"
        /\ last.value = last.prev_ok.data

C3_Witness ==
    /\ Called /\ last.prev_ok.some /\ last.prev_ok.returned
    /\ last.at - last.prev_ok.at = CACHE_EXPIRATION - 100
    /\ ~last.fetched /\ last.value = last.prev_ok.data

C5_CorruptStoreAsEmpty ==
    (Called /\ IsCorrupt(last.pre)) =>
        LET r == CachedRequest(FileAbsent, last.url, last.at, last.net) IN
        /\ last.fetched
        /\ last.ret = r.ret
        /\ last.value = r.value

\* The url-to-entry store a file content holds: none on an absent file and
\* on content that is no JSON object.
StoreOf(f) == IF f.kind = "object" THEN f.map ELSE EmptyMap
\* The store m with url mapped to the entry {data: d, timestamp: t}.
WithEntry(m, url, d, t) ==
    [u \in DOMAIN m \cup {url} |-> IF u = url THEN Entry(d, t) ELSE m[u]]

\* C13: a call at time now that misses or finds an expired entry and whose
\* fetch succeeds with d returns d, and the persisted store is then the store
\* loaded at the start of the call with url mapped to {data: d, timestamp:
\* now}: the entry of every other url is as it was.
C13_SuccessfulFetchFrame ==
    (Called /\ last.fetched /\ last.net.ok) =>
        /\ last.ret = "return" /\ last.value = last.net.data
        /\ file = FileObject(WithEntry(StoreOf(last.pre), last.url,
                                       last.net.data, last.at))
\* The same on every cache file that holds a JSON object.
C13_FrameOnObjectStores ==
    (Called /\ last.fetched /\ last.net.ok /\ Loaded.kind = "object") =>
        /\ last.ret = "return" /\ last.value = last.net.data
        /\ file = FileObject(WithEntry(Loaded.map, last.url,
                                       last.net.data, last.at))

\* Line 80, the docstring of cached_request: "not expired (< 24 hours old)".
DOCSTRING_EXPIRATION == 86400

\* C15: the call returns the cached data without fetching whenever an entry
\* for url is available and less than 24 hours old; otherwise it fetches, and
\* when the fetch succeeds it updates the cache and returns the fresh data.
\* (Read in its favour: on a well-formed store.)
C15_DocstringExpiration ==
    (Called /\ ~IsCorrupt(last.pre)) =>
        IF /\ HasEntry /\ WellFormedEntry(LoadedEntry)
           /\ last.at - LoadedEntry.timestamp < DOCSTRING_EXPIRATION
        THEN /\ ~last.fetched
             /\ last.ret = "return" /\ last.value = LoadedEntry.data
        ELSE /\ last.fetched
             /\ (last.net.ok /\ Loaded.kind = "object") =>
                   /\ last.ret = "return" /\ last.value = last.net.data
                   /\ file = FileObject(WithEntry(Loaded.map, last.url,
                                                  last.net.data, last.at))

\* The call before the last one for the same url returned the stored data
\* after its fetch failed.
PrevWasFallback ==
    /\ Called /\ last.prev.some
    /\ last.prev.ret = "return" /\ last.prev.fetched /\ ~last.prev.net.ok

\* C19: a call that returns without a successful fetch (a fresh hit, or the
\* stored data after a failed fetch) leaves the file as it was; and the call
\* for a url that follows such a fallback for it attempts a fetch again, so
\* every later call does until a fetch succeeds.
C19_NoFetchNoWrite ==
    /\ (Called /\ last.ret = "return" /\ ~(last.fetched /\ last.net.ok))
           => file = last.pre
    /\ PrevWasFallback => last.fetched

\* Two fallbacks in a row for one url, the second later than the first: the
\* second call fetched again and left the file as it was.
C19_Witness ==
    /\ PrevWasFallback /\ last.at > last.prev.at
    /\ last.fetched /\ ~last.net.ok /\ last.ret = "return"
    /\ file = last.pre

----------------------------------------------------------------------------
(* ----------------------- properties of the dispatch -------------------- *)

Returned == pc \in {"completed", "failed"}
Executed(b) == {i \in 1..Len(b) : b[i] \in {"ok", "failed"}}
Running == {<<b, i>> \in (1..Len(jobs)) \X (1..MaxRuns) :
              i <= Len(jobs[b]) /\ jobs[b][i] = "running"}
Started(b) == \E i \in 1..Len(b) : b[i] \in {"running", "ok", "failed"}

\* C6: in standard mode all N jobs of the batch have been executed, each
\* once, when the dispatch call returns, whichever job failed and whatever
\* the parallelism: no job is cancelled or left unstarted.
C6_AllJobsExecuted ==
    (mode = "standard" /\ Returned) =>
        Cardinality(Executed(Batch)) = runs

\* The jobs of table entry s that were executed, and those planned for it.
ExecutedOf(s) == IF s <= Len(jobs) THEN Cardinality(Executed(jobs[s])) ELSE 0
PlannedFor(s) == weighted_runs(weights[s], Sum(weights), runs)

\* C7: in weighted mode, when a job's failure is surfaced to the caller, the
\* jobs planned for every source later in table order have been executed.
C7_LaterSourcesStillRun ==
    (mode = "binaries" /\ pc = "failed") =>
        \A s \in 1..Len(weights) :
            s > failure.src => ExecutedOf(s) = PlannedFor(s)

\* C8: when a dispatch call returns, normally or with a job's failure, no
\* submitted job is running or pending, and every submitted job has finished,
\* in success or in failure.
C8_DrainedAndFinished ==
    Returned =>
        \A b \in 1..Len(jobs) : \A i \in 1..Len(jobs[b]) :
            /\ jobs[b][i] \notin {"pending", "queued", "running"}
            /\ jobs[b][i] \in {"ok", "failed"}

\* C9: at most P solve invocations run at any time, over all sources; and in
\* weighted mode no job of a later source starts before every job of each
\* earlier source has finished.
C9_BoundedParallelism ==
    /\ Cardinality(Running) <= processes
    /\ \A a \in 1..Len(jobs), b \in 1..Len(jobs) :
          (a < b /\ Started(jobs[b])) =>
              \A i \in 1..Len(jobs[a]) : jobs[a][i] \in {"ok", "failed"}

C9_Witness ==
    /\ mode = "binaries" /\ Len(jobs) = 2 /\ processes = 2
    /\ Len(jobs[1]) >= 1
    /\ Cardinality(Running) = 2
    /\ InState(jobs[2], "queued") # {}

\* C11: a weight table that is missing or empty (both are the empty table of
\* line 45) or that sums to zero makes weighted planning fail, whatever R is,
\* and before any job is dispatched: the call never completes normally and no
\* batch is ever submitted.
C11_BadTableFailsBeforeDispatch ==
    (mode = "binaries" /\ Sum(weights) = 0) =>
        /\ pc # "completed"
        /\ jobs = <<>>

\* C16: the failure surfaced to the caller is that of the failing job with
\* the lowest submission position, in whatever order the jobs finish: every
\* result before it was taken in submission order and was a success, and a
\* call that returns with a failed job in its last batch surfaces it.
C16_LowestFailureSurfaced ==
    /\ pc = "failed" => failure.some
    /\ failure.some =>
          /\ failure.src = Len(jobs)
          /\ Batch[failure.pos] = "failed"
          /\ \A i \in 1..(failure.pos - 1) : Batch[i] = "ok"
    /\ (pc = "dispatching" /\ jobs # <<>>) =>
          \A i \in 1..(nxt - 1) : Batch[i] = "ok"
    /\ (Returned /\ jobs # <<>> /\ InState(Batch, "failed") # {}) =>
          /\ pc = "failed"
          /\ failure.pos = Min(InState(Batch, "failed"))

\* Two jobs of the batch failed, the later one among them, and the earlier
\* one is surfaced.
C16_Witness ==
    /\ pc = "failed"
    /\ Cardinality(InState(Batch, "failed")) >= 2
    /\ failure.pos = 1 /\ Batch[2] = "failed"

\* C17: a dispatch call goes from idle through dispatching to exactly one of
\* completed and failed, both final: when every solve invocation eventually
\* finishes, a call that is dispatching eventually returns; and a call never
\* returns while a started job has not finished, so a job that never finishes
\* keeps it from returning for ever.
C17_DispatchTerminates ==
    /\ WF_vars(SolveFinishes) => (pc = "dispatching" ~> Returned)
    /\ [](Returned => Running = {})
    /\ <>[](Running # {}) => [](~Returned)
    /\ [][pc = "idle" => pc' \in {"dispatching", "completed", "error"}]_vars
    /\ [][Returned => pc' = pc]_vars
    /\ [](pc = "failed" <=> (Returned /\ failure.some))

\* A failure was taken and the call is held back by a job still running.
C17_Witness ==
    /\ pc = "shutdown" /\ failure.some
    /\ Running # {}

----------------------------------------------------------------------------
(* ----------------------- properties of the planner --------------------- *)

\* n / d rounded to the nearest integer, a tie to the even one, exactly.
RoundHalfEven(n, d) ==
    LET q == n \div d
        r == n % d
    IN  IF 2 * r > d THEN q + 1
        ELSE IF 2 * r < d THEN q
        ELSE IF q % 2 = 0 THEN q ELSE q + 1
IsTie(n, d) == 2 * (n % d) = d

RECURSIVE GCD(_, _)
GCD(a, b) == IF b = 0 THEN a ELSE GCD(b, a % b)
\* w / S is a binary fraction, which a float holds exactly.
IsDyadic(w, S) == \E k \in 0..30 : S \div GCD(w, S) = 2^k

Planned == 1..Len(counts)
OnePerEntryInOrder ==
    /\ Len(counts) <= Len(weights)
    /\ (pc = "completed" /\ Sum(weights) > 0) => Len(counts) = Len(weights)
    /\ runs = 0 => \A i \in Planned : counts[i] = 0

\* C10 as stated: every source i is allocated exactly weight_i / S * R
\* rounded half to even, one count per table entry in table order, and R = 0
\* gives all-zero counts.
C10_ExactRoundHalfEven ==
    /\ OnePerEntryInOrder
    /\ \A i \in Planned :
          counts[i] = RoundHalfEven(weights[i] * runs, Sum(weights))

\* C10 amended: the count is round() of the binary64 product. It is the exact
\* value rounded half to even unless the exact value is a tie and weight_i / S
\* is no binary fraction: then the float's error decides between the two
\* neighbours.
C10_FloatRoundHalfEven ==
    /\ OnePerEntryInOrder
    /\ \A i \in Planned :
          LET n == weights[i] * runs
              S == Sum(weights)
          IN  IF IsTie(n, S) /\ ~IsDyadic(weights[i], S)
              THEN counts[i] \in {n \div S, n \div S + 1}
              ELSE counts[i] = RoundHalfEven(n, S)

C10_Witness ==
    /\ pc = "completed"
    /\ weights = <<15, 7>> /\ runs = 11
    /\ counts = <<7, 4>>

Abs(x) == IF x < 0 THEN -x ELSE x
\* How far the counts of a fully planned table are from the runs asked for.
Deviation == Abs(Sum(counts) - runs)
FullyPlanned == pc = "completed" /\ Sum(weights) > 0

\* C12 as stated, the bound rounded by the rounding rule the planner uses
\* (half to even): the allocated counts of n sources sum to within
\* round((n - 1) * 0.5) of R.
C12_DeviationRoundedHalfEven ==
    FullyPlanned => Deviation <= RoundHalfEven(Len(weights) - 1, 2)

\* C12 amended: the allocated counts of n sources sum to within n div 2 of
\* R, which is (n - 1) * 0.5 rounded up to an integer.
C12_DeviationAtMostHalfSources ==
    FullyPlanned => Deviation <= Len(weights) \div 2

C12_Witness ==
    /\ FullyPlanned
    /\ Len(weights) = 6 /\ runs = 3
    /\ Sum(counts) = 0 /\ Deviation = 3

----------------------------------------------------------------------------
(* ----------------------- properties of the job dicts ------------------- *)

\* t without the suffix suf, when t ends with it; t itself when not.
EndsWith(t, suf) ==
    Len(t) >= Len(suf) /\ SubSeq(t, Len(t) - Len(suf) + 1, Len(t)) = suf
RemoveSuffix(t, suf) ==
    IF EndsWith(t, suf) THEN SubSeq(t, 1, Len(t) - Len(suf)) ELSE t

\* C14: the datasource of every job dict built for a source is the source's
\* name with exactly its trailing extension ".csv" stripped, and nothing else
\* removed.
C14_DatasourceIsNameWithoutExtension ==
    \A k \in 1..Len(specs) :
        specs[k].datasource = RemoveSuffix(names[specs[k].entry], Csv)

\* The job dicts built for table entry s.
SpecsOf(s) == {k \in 1..Len(specs) : specs[k].entry = s}

\* Within each source, run_no takes exactly the values "1" .. str(count),
\* each once.
C20_RunNoRange ==
    \A s \in 1..Len(counts) :
        /\ Cardinality(SpecsOf(s)) = counts[s]
        /\ {specs[k].run_no : k \in SpecsOf(s)} = {str(i) : i \in 1..counts[s]}

\* C20: for a table of distinct source names no two job dicts built in one
\* run share both datasource and run_no, and within each source run_no takes
\* exactly the values "1" .. str(count).
C20_UniqueDatasourceRunNo ==
    /\ \A j \in 1..Len(specs), k \in 1..Len(specs) :
           j # k => <<specs[j].datasource, specs[j].run_no>>
                      # <<specs[k].datasource, specs[k].run_no>>
    /\ C20_RunNoRange

----------------------------------------------------------------------------
(* --------------------- properties of concurrent callers ---------------- *)

\* The file holds the entry caller c fetched.
HoldsEntryOf(c) ==
    /\ file.kind = "object"
    /\ callers[c].url \in DOMAIN file.map
    /\ file.map[callers[c].url] = Entry(callers[c].net.data, callers[c].at)

\* C18: the last write wins whole: when two callers for different urls both
\* fetched and saved, the second to save having loaded the cache before the
\* first saved, the file the second leaves (when it is JSON) lacks the entry
\* the first wrote; and such an interleaving exists (C18_Witness).
C18_LostUpdate ==
    \A a \in Callers, b \in Callers :
        (/\ saves = <<a, b>> /\ a # b
         /\ callers[a].url # callers[b].url
         /\ callers[b].seen = 0
         /\ file.kind = "object")
        => /\ ~HoldsEntryOf(a)
           /\ HoldsEntryOf(b)

\* Both callers fetched successfully and saved, for different urls, and the
\* file holds the second's entry and no entry for the first's url.
C18_Witness ==
    \E a \in Callers, b \in Callers :
        /\ saves = <<a, b>> /\ a # b
        /\ callers[a].url # callers[b].url
        /\ callers[a].net.ok /\ callers[b].net.ok
        /\ callers[a].ret = "return" /\ callers[b].ret = "return"
        /\ HoldsEntryOf(b)
        /\ callers[a].url \notin DOMAIN file.map

====
